---------------------------- MODULE Spec2Model ----------------------------
(***************************************************************************)
(* Audio transcriber: the browser component (App), its transcript parser,  *)
(* search filter and seek mapping, the ffmpeg helper it converts with, and *)
(* the server's /api/proxy-audio handler.                                  *)
(*                                                                         *)
(* A JavaScript string is a sequence of one-character strings, so that     *)
(* split, trim, match, toLowerCase and includes are computed, not assumed. *)
(***************************************************************************)
EXTENDS Integers, Sequences, FiniteSets

VARIABLES
    \* ---- App state (useState hooks of the component) ----
    audioFile,              \* 0 (null) or the id of the loaded blob
    audioUrl,               \* 0 ('') or the object URL of the loaded blob
    inputUrl,               \* 0 ('') or the id of the URL typed in the form
    isTranscribing,
    transcriptionProgress,  \* in thousandths of a percent
    transcription,          \* sequence of [time, text] chunks
    searchQuery,
    isConverting,
    convertedUrl,           \* 0 (null) or the id of the blob that was converted
    \* ---- the audio element ----
    currentTime,            \* seconds, or NaN
    seekTime,               \* the time string of the timestamp button last clicked
    \* ---- asynchronous work in flight ----
    loads,                  \* handleUrlSubmit calls awaiting the proxy
    transcribes,            \* handleTranscribe calls awaiting reader / model
    intervals,              \* live setInterval timers (progressInterval)
    timers,                 \* pending setTimeout(() => setIsTranscribing(false))
    converts,               \* handleConvert calls inside convertAudio
    \* ---- the parsing loop of handleTranscribe, taken line by line ----
    text,                   \* response.text
    lineIdx,                \* lines already consumed by the for loop
    chunks,                 \* the local array chunks
    ppc,                    \* "idle" | "parsing" | "done"
    \* ---- utils/ffmpeg.ts module state and the engine it holds ----
    ffmpeg,                 \* 0 (null) or the id of the FFmpeg instance
    engines,                \* number of FFmpeg instances created
    engineLoaded,           \* whether the cached instance finished load()
    listeners,              \* 'progress' listeners registered on the instance
    fsFiles,                \* files in the engine's in-memory file system
    \* ---- what the user is told ----
    lastAlert,              \* which alert() was shown last
    lastError,              \* what console.error logged last
    \* ---- the server ----
    requests                \* /api/proxy-audio requests being handled

vars == << audioFile, audioUrl, inputUrl, isTranscribing, transcriptionProgress,
           transcription, searchQuery, isConverting, convertedUrl, currentTime,
           seekTime, loads, transcribes, intervals, timers, converts, text,
           lineIdx, chunks, ppc, ffmpeg, engines, engineLoaded, listeners,
           fsFiles, lastAlert, lastError, requests >>

appVars == << audioFile, audioUrl, inputUrl, isTranscribing, transcriptionProgress,
              isConverting, convertedUrl, loads, transcribes, intervals, timers,
              converts, lastAlert, lastError >>
engineVars == << ffmpeg, engines, engineLoaded, listeners, fsFiles >>
parserVars == << text, lineIdx, chunks, ppc >>
playerVars == << currentTime, seekTime >>

(***************************************************************************)
(* Characters and strings                                                  *)
(***************************************************************************)
Digits == {"0", "1", "2", "3", "4", "5", "6", "7", "8", "9"}

DigitChars == <<"0", "1", "2", "3", "4", "5", "6", "7", "8", "9">>

DigitValue(c) == CHOOSE v \in 0..9 : DigitChars[v + 1] = c

\* What \s in a regular expression and String.prototype.trim() take as blank.
WhiteSpace == {" ", "\t", "\n", "\r"}

\* What '.' in a regular expression (without the s flag) does not match.
LineTerminators == {"\n", "\r"}

\* s[i], or the non-character "" past either end.
At(s, i) == IF i \in 1..Len(s) THEN s[i] ELSE ""

Min(S) == CHOOSE m \in S : \A n \in S : m <= n

RECURSIVE Split(_, _)
\* String.prototype.split(sep) for a one-character separator.
Split(s, sep) ==
    IF \A i \in 1..Len(s) : s[i] # sep
    THEN <<s>>
    ELSE LET k == Min({i \in 1..Len(s) : s[i] = sep})
         IN  <<SubSeq(s, 1, k - 1)>> \o Split(SubSeq(s, k + 1, Len(s)), sep)

RECURSIVE TrimStart(_)
TrimStart(s) ==
    IF s # <<>> /\ s[1] \in WhiteSpace THEN TrimStart(Tail(s)) ELSE s

RECURSIVE TrimEnd(_)
TrimEnd(s) ==
    IF s # <<>> /\ s[Len(s)] \in WhiteSpace
    THEN TrimEnd(SubSeq(s, 1, Len(s) - 1))
    ELSE s

\* String.prototype.trim()
Trim(s) == TrimEnd(TrimStart(s))

LowerOf(c) ==
    CASE c = "A" -> "a"
      [] c = "E" -> "e"
      [] c = "H" -> "h"
      [] c = "I" -> "i"
      [] c = "X" -> "x"
      [] OTHER -> c

\* String.prototype.toLowerCase()
ToLowerCase(s) == [i \in 1..Len(s) |-> LowerOf(s[i])]

\* String.prototype.includes(q)
Includes(s, q) ==
    \E k \in 0..(Len(s) - Len(q)) : SubSeq(s, k + 1, k + Len(q)) = q

(***************************************************************************)
(* timeRegex: "[", one or two digits, ":", two digits, optionally ":" and   *)
(* two more digits, "]", any white space, then the rest of the line.       *)
(***************************************************************************)
\* \d{d}:\d{2} at s[i], then (with g) :\d{2}, then "]".
CoreMatches(s, i, d, g) ==
    /\ \A k \in 0..(d - 1) : At(s, i + k) \in Digits
    /\ At(s, i + d) = ":"
    /\ At(s, i + d + 1) \in Digits
    /\ At(s, i + d + 2) \in Digits
    /\ IF g
       THEN /\ At(s, i + d + 3) = ":"
            /\ At(s, i + d + 4) \in Digits
            /\ At(s, i + d + 5) \in Digits
            /\ At(s, i + d + 6) = "]"
       ELSE At(s, i + d + 3) = "]"

\* Length of group 1 when the pattern matches with its "[" at s[i], else 0.
\* The alternatives are tried in the matcher's order: two digits before one,
\* the optional seconds group before its absence.
MatchAt(s, i) ==
    IF At(s, i) # "[" THEN 0
    ELSE IF CoreMatches(s, i + 1, 2, TRUE)  THEN 8
    ELSE IF CoreMatches(s, i + 1, 2, FALSE) THEN 5
    ELSE IF CoreMatches(s, i + 1, 1, TRUE)  THEN 7
    ELSE IF CoreMatches(s, i + 1, 1, FALSE) THEN 4
    ELSE 0

\* The pattern is not anchored: match() finds the leftmost position.
MatchStarts(line) == {i \in 1..Len(line) : MatchAt(line, i) > 0}

RECURSIVE UpToTerminator(_)
\* The last group: the longest run of characters that are not line terminators.
UpToTerminator(s) ==
    IF s = <<>> \/ s[1] \in LineTerminators
    THEN <<>>
    ELSE <<s[1]>> \o UpToTerminator(Tail(s))

\* line.match(timeRegex): FALSE for null, else groups 1 and 2.
TimeRegexMatch(line) ==
    IF MatchStarts(line) = {}
    THEN [matched |-> FALSE, time |-> <<>>, text |-> <<>>]
    ELSE LET i == Min(MatchStarts(line))
             n == MatchAt(line, i)
             rest == SubSeq(line, i + n + 2, Len(line))
         IN  [matched |-> TRUE,
              time |-> SubSeq(line, i + 1, i + n),
              text |-> UpToTerminator(TrimStart(rest))]

(***************************************************************************)
(* The chunk parser of handleTranscribe                                    *)
(***************************************************************************)
ZeroTime == <<"0", "0", ":", "0", "0">>

\* ParseLine with the merge into the last chunk forgotten: a line without a
\* timestamp always opens a "00:00" chunk.
ParseLineOwnChunk(cs, line) ==
    LET m == TimeRegexMatch(line)
    IN  IF m.matched
        THEN Append(cs, [time |-> m.time, text |-> m.text])
        ELSE IF Trim(line) # <<>>
        THEN Append(cs, [time |-> ZeroTime, text |-> Trim(line)])
        ELSE cs

\* One iteration of "for (const line of lines)".
ParseLine(cs, line) ==
    LET m == TimeRegexMatch(line)
    IN  IF m.matched
        THEN Append(cs, [time |-> m.time, text |-> m.text])
        ELSE IF Trim(line) # <<>>
        THEN IF Len(cs) > 0
             THEN [cs EXCEPT ![Len(cs)].text = @ \o <<" ">> \o Trim(line)]
             ELSE <<[time |-> ZeroTime, text |-> Trim(line)]>>
        ELSE cs

RECURSIVE ParseFrom(_, _, _)
ParseFrom(cs, lines, k) ==
    IF k > Len(lines) THEN cs
    ELSE ParseFrom(ParseLine(cs, lines[k]), lines, k + 1)

\* The whole loop: text.split('\n') folded through ParseLine.
ParseChunks(t) == ParseFrom(<<>>, Split(t, "\n"), 1)

(***************************************************************************)
(* Search filter and seek mapping (computed at render / on click)          *)
(***************************************************************************)
\* FilterChunks with the query compared as typed.
FilterChunksAsTyped(cs, q) ==
    SelectSeq(cs, LAMBDA c : Includes(ToLowerCase(c.text), q))

\* transcription.filter(chunk => chunk.text.toLowerCase().includes(q.toLowerCase()))
FilterChunks(cs, q) ==
    SelectSeq(cs, LAMBDA c : Includes(ToLowerCase(c.text), ToLowerCase(q)))

filteredTranscription == FilterChunks(transcription, searchQuery)

\* Stands for NaN: Number() of a string without a sign is never negative.
NaN == -1

RECURSIVE DecimalValue(_)
DecimalValue(s) ==
    IF s = <<>> THEN 0
    ELSE 10 * DecimalValue(SubSeq(s, 1, Len(s) - 1)) + DigitValue(s[Len(s)])

\* Number(s), for strings of digits, white space and other characters.
Number(s) ==
    LET t == Trim(s)
    IN  IF \A i \in 1..Len(t) : t[i] \in Digits THEN DecimalValue(t) ELSE NaN

\* TimeToSeconds with the hours of a three-part time weighted as minutes.
TimeToSecondsHoursAsMinutes(time) ==
    LET strs  == Split(time, ":")
        parts == [i \in 1..Len(strs) |-> Number(strs[i])]
    IN  IF Len(parts) = 3
        THEN parts[1] * 60 + parts[2] * 60 + parts[3]
        ELSE IF Len(parts) = 2
        THEN parts[1] * 60 + parts[2]
        ELSE 0

\* The onClick of a timestamp button: chunk.time.split(':').map(Number), then
\* the three-part, two-part and fallback cases.
TimeToSeconds(time) ==
    LET strs  == Split(time, ":")
        parts == [i \in 1..Len(strs) |-> Number(strs[i])]
    IN  IF \E i \in 1..Len(parts) : parts[i] = NaN /\ Len(parts) \in {2, 3}
        THEN NaN
        ELSE IF Len(parts) = 3
        THEN parts[1] * 3600 + parts[2] * 60 + parts[3]
        ELSE IF Len(parts) = 2
        THEN parts[1] * 60 + parts[2]
        ELSE 0

(***************************************************************************)
(* Bounds of the model                                                     *)
(***************************************************************************)
MaxFiles == 1       \* distinct files the user can pick
MaxUrls == 1        \* distinct URLs the user can type
MaxInFlight == 2    \* URL loads awaited at once
MaxListeners == 2   \* conversions are started while fewer listeners are held
TickHorizon == 5    \* in Spec, ticks are followed while progress is below this percent
MaxLines == 3       \* lines of a response text given to the parser
MaxRequests == 2    \* proxy requests handled at once

\* Progress is a float in the code; here it is kept in thousandths of a percent.
Pct(n) == n * 1000

Max(a, b) == IF a >= b THEN a ELSE b

Remove(seq, i) == SubSeq(seq, 1, i - 1) \o SubSeq(seq, i + 1, Len(seq))

\* The blob a URL load yields; files are 1..MaxFiles.
BlobOfUrl(u) == MaxFiles + u

\* What the model answers for an audio: one timestamped line naming it.
TextOf(a) == <<"[", "0", ":", "0", DigitChars[a + 1], "]", " ", "H", "i">>

(***************************************************************************)
(* State after construction                                                *)
(***************************************************************************)
InitApp ==
    /\ audioFile = 0
    /\ audioUrl = 0
    /\ inputUrl = 0
    /\ isTranscribing = FALSE
    /\ transcriptionProgress = 0
    /\ transcription = <<>>
    /\ searchQuery = <<>>
    /\ isConverting = FALSE
    /\ convertedUrl = 0
    /\ loads = <<>>
    /\ transcribes = <<>>
    /\ intervals = 0
    /\ timers = 0
    /\ converts = <<>>
    /\ lastAlert = "none"
    /\ lastError = "none"

InitPlayer ==
    /\ currentTime = 0
    /\ seekTime = <<>>

InitParser ==
    /\ text = <<>>
    /\ lineIdx = 0
    /\ chunks = <<>>
    /\ ppc = "idle"

InitEngine ==
    /\ ffmpeg = 0
    /\ engines = 0
    /\ engineLoaded = FALSE
    /\ listeners = 0
    /\ fsFiles = {}

InitServer == requests = <<>>

Init == InitApp /\ InitPlayer /\ InitParser /\ InitEngine /\ InitServer

(***************************************************************************)
(* App: loading an audio                                                   *)
(***************************************************************************)
\* onChange of the file input; f = 0 is a change event without a file.
handleFileUpload(f) ==
    /\ IF f # 0
       THEN /\ audioFile' = f
            /\ audioUrl' = f
            /\ transcription' = <<>>
            /\ convertedUrl' = 0
       ELSE UNCHANGED <<audioFile, audioUrl, transcription, convertedUrl>>
    /\ UNCHANGED <<inputUrl, isTranscribing, transcriptionProgress, searchQuery,
                   isConverting, loads, transcribes, intervals, timers, converts,
                   lastAlert, lastError>>
    /\ UNCHANGED <<playerVars, parserVars, engineVars, requests>>

\* onChange of the URL input.
setInputUrl(u) ==
    /\ inputUrl' = u
    /\ UNCHANGED <<audioFile, audioUrl, isTranscribing, transcriptionProgress,
                   transcription, searchQuery, isConverting, convertedUrl, loads,
                   transcribes, intervals, timers, converts, lastAlert, lastError>>
    /\ UNCHANGED <<playerVars, parserVars, engineVars, requests>>

\* Whether the Load button lets a submit through. The button has no disabled
\* attribute and the handler no flag: only the model's bound holds it back.
LoadEnabled == Len(loads) < MaxInFlight

\* The form's onSubmit, up to its await of the proxy fetch.
handleUrlSubmit ==
    /\ LoadEnabled
    /\ IF inputUrl = 0
       THEN UNCHANGED loads
       ELSE loads' = Append(loads, [url |-> inputUrl])
    /\ UNCHANGED <<audioFile, audioUrl, inputUrl, isTranscribing,
                   transcriptionProgress, transcription, searchQuery, isConverting,
                   convertedUrl, transcribes, intervals, timers, converts,
                   lastAlert, lastError>>
    /\ UNCHANGED <<playerVars, parserVars, engineVars, requests>>

\* handleUrlSubmit resumed: the proxy answered ok and the blob was read.
LoadSucceeds(i) ==
    /\ i \in 1..Len(loads)
    /\ audioFile' = BlobOfUrl(loads[i].url)
    /\ audioUrl' = BlobOfUrl(loads[i].url)
    /\ transcription' = <<>>
    /\ convertedUrl' = 0
    /\ loads' = Remove(loads, i)
    /\ UNCHANGED <<inputUrl, isTranscribing, transcriptionProgress, searchQuery,
                   isConverting, transcribes, intervals, timers, converts,
                   lastAlert, lastError>>
    /\ UNCHANGED <<playerVars, parserVars, engineVars, requests>>

\* handleUrlSubmit resumed in its catch: fetch threw, or the answer was not ok.
LoadFails(i) ==
    /\ i \in 1..Len(loads)
    /\ loads' = Remove(loads, i)
    /\ lastError' = "Failed to fetch audio"
    /\ lastAlert' = "load"
    /\ UNCHANGED <<audioFile, audioUrl, inputUrl, isTranscribing,
                   transcriptionProgress, transcription, searchQuery, isConverting,
                   convertedUrl, transcribes, intervals, timers, converts>>
    /\ UNCHANGED <<playerVars, parserVars, engineVars, requests>>

(***************************************************************************)
(* App: transcribing                                                       *)
(***************************************************************************)
\* The Transcribe button is rendered with the player and disabled by the flag.
TranscribeEnabled == audioUrl # 0 /\ ~isTranscribing

\* TickValue without the "if (prev >= 90) return prev" guard.
TickValueUnguarded(prev) ==
    prev + Max(Pct(1) \div 2, (Pct(90) - prev) \div 20)

\* The setInterval callback applied to the previous progress.
TickValue(prev) ==
    IF prev >= Pct(90) THEN prev
    ELSE prev + Max(Pct(1) \div 2, (Pct(90) - prev) \div 20)

\* handleTranscribe up to its await: flag, progress, interval, reader started.
handleTranscribe ==
    /\ TranscribeEnabled
    /\ IF audioFile = 0
       THEN UNCHANGED <<isTranscribing, transcriptionProgress, intervals, transcribes>>
       ELSE /\ isTranscribing' = TRUE
            /\ transcriptionProgress' = 0
            /\ intervals' = intervals + 1
            /\ transcribes' = Append(transcribes, [audio |-> audioFile, pc |-> "reading"])
    /\ UNCHANGED <<audioFile, audioUrl, inputUrl, transcription, searchQuery,
                   isConverting, convertedUrl, loads, timers, converts,
                   lastAlert, lastError>>
    /\ UNCHANGED <<playerVars, parserVars, engineVars, requests>>

\* One firing of a live progressInterval.
ProgressTick ==
    /\ intervals > 0
    /\ transcriptionProgress' = TickValue(transcriptionProgress)
    /\ UNCHANGED <<audioFile, audioUrl, inputUrl, isTranscribing, transcription,
                   searchQuery, isConverting, convertedUrl, loads, transcribes,
                   intervals, timers, converts, lastAlert, lastError>>
    /\ UNCHANGED <<playerVars, parserVars, engineVars, requests>>

\* The same, followed only below the horizon.
ProgressTickNear ==
    /\ transcriptionProgress < Pct(TickHorizon)
    /\ ProgressTick

\* What the interval count is after clearInterval(progressInterval).
ClearInterval(n) == n - 1

\* The tail of the try block: setTranscription, progress 100, clearInterval,
\* and the timer that will drop the flag.
TranscribeCompletes(i, cs) ==
    /\ transcription' = cs
    /\ transcriptionProgress' = Pct(100)
    /\ intervals' = ClearInterval(intervals)
    /\ timers' = timers + 1
    /\ transcribes' = Remove(transcribes, i)
    /\ UNCHANGED <<audioFile, audioUrl, inputUrl, isTranscribing, searchQuery,
                   isConverting, convertedUrl, loads, converts, lastAlert, lastError>>

\* The catch block: log, alert, clearInterval, flag dropped at once.
TranscribeThrows(i, err) ==
    /\ lastError' = err
    /\ lastAlert' = "transcribe"
    /\ intervals' = ClearInterval(intervals)
    /\ isTranscribing' = FALSE
    /\ transcribes' = Remove(transcribes, i)
    /\ UNCHANGED <<audioFile, audioUrl, inputUrl, transcriptionProgress,
                   transcription, searchQuery, isConverting, convertedUrl, loads,
                   timers, converts>>

\* reader.onloadend / reader.onerror.
ReaderDone(i, ok) ==
    /\ i \in 1..Len(transcribes)
    /\ transcribes[i].pc = "reading"
    /\ IF ok
       THEN /\ transcribes' = [transcribes EXCEPT ![i].pc = "calling"]
            /\ UNCHANGED <<audioFile, audioUrl, inputUrl, isTranscribing,
                           transcriptionProgress, transcription, searchQuery,
                           isConverting, convertedUrl, loads, intervals, timers,
                           converts, lastAlert, lastError>>
       ELSE TranscribeThrows(i, "read failed")
    /\ UNCHANGED <<playerVars, parserVars, engineVars, requests>>

\* generateContent settled: with a text (possibly empty), or rejected.
ModelAnswers(i, ok, t) ==
    /\ i \in 1..Len(transcribes)
    /\ transcribes[i].pc = "calling"
    /\ IF ok
       THEN TranscribeCompletes(i, ParseChunks(t))
       ELSE TranscribeThrows(i, "model failed")
    /\ UNCHANGED <<playerVars, parserVars, engineVars, requests>>

\* setTimeout(() => setIsTranscribing(false), 500) fires.
FinishTimer ==
    /\ timers > 0
    /\ timers' = timers - 1
    /\ isTranscribing' = FALSE
    /\ UNCHANGED <<audioFile, audioUrl, inputUrl, transcriptionProgress,
                   transcription, searchQuery, isConverting, convertedUrl, loads,
                   transcribes, intervals, converts, lastAlert, lastError>>
    /\ UNCHANGED <<playerVars, parserVars, engineVars, requests>>

(***************************************************************************)
(* App: converting, through convertAudio and getFFmpeg of utils/ffmpeg.ts  *)
(***************************************************************************)
\* The Convert button is rendered with the player and disabled by the flag;
\* the bound on listeners is the model's.
ConvertEnabled == audioUrl # 0 /\ ~isConverting /\ listeners < MaxListeners

fileVars == <<audioFile, audioUrl, inputUrl, isTranscribing, transcriptionProgress,
              transcription, searchQuery, loads, transcribes, intervals, timers>>

\* ff.on('progress', ...) when convertAudio resumes with the engine, then
\* fetchFile and writeFile are awaited.
RegisterAndWrite(i) ==
    /\ listeners' = listeners + 1
    /\ converts' = [converts EXCEPT ![i].pc = "write"]

\* The catch and finally of handleConvert.
ConvertThrows(i, err) ==
    /\ lastError' = err
    /\ lastAlert' = "convert"
    /\ isConverting' = FALSE
    /\ converts' = Remove(converts, i)
    /\ UNCHANGED convertedUrl

\* handleConvert, into convertAudio and getFFmpeg up to the first await that
\* waits for the outside: a cached instance is returned as it is, otherwise a
\* new one is stored in the module variable before its core is fetched.
handleConvert ==
    /\ ConvertEnabled
    /\ IF audioFile = 0
       THEN UNCHANGED <<isConverting, converts, engineVars>>
       ELSE /\ isConverting' = TRUE
            /\ IF ffmpeg # 0
               THEN /\ listeners' = listeners + 1
                    /\ converts' = Append(converts, [audio |-> audioFile, pc |-> "write"])
                    /\ UNCHANGED <<ffmpeg, engines, engineLoaded, fsFiles>>
               ELSE /\ ffmpeg' = engines + 1
                    /\ engines' = engines + 1
                    /\ engineLoaded' = FALSE
                    /\ converts' = Append(converts, [audio |-> audioFile, pc |-> "toBlobURL"])
                    /\ UNCHANGED <<listeners, fsFiles>>
    /\ UNCHANGED <<fileVars, convertedUrl, lastAlert, lastError>>
    /\ UNCHANGED <<playerVars, parserVars, requests>>

\* getFFmpeg: the two toBlobURL fetches of the core settled.
CoreFetched(i, ok) ==
    /\ i \in 1..Len(converts)
    /\ converts[i].pc = "toBlobURL"
    /\ IF ok
       THEN /\ converts' = [converts EXCEPT ![i].pc = "load"]
            /\ UNCHANGED <<isConverting, convertedUrl, lastAlert, lastError>>
       ELSE ConvertThrows(i, "core fetch failed")
    /\ UNCHANGED <<fileVars, engineVars>>
    /\ UNCHANGED <<playerVars, parserVars, requests>>

\* getFFmpeg: ffmpeg.load settled; on success convertAudio goes on at once.
EngineLoadDone(i, ok) ==
    /\ i \in 1..Len(converts)
    /\ converts[i].pc = "load"
    /\ IF ok
       THEN /\ engineLoaded' = TRUE
            /\ RegisterAndWrite(i)
            /\ UNCHANGED <<isConverting, convertedUrl, lastAlert, lastError>>
       ELSE /\ ConvertThrows(i, "load failed")
            /\ UNCHANGED <<engineLoaded, listeners>>
    /\ UNCHANGED <<fileVars, ffmpeg, engines, fsFiles>>
    /\ UNCHANGED <<playerVars, parserVars, requests>>

\* ff.writeFile settled: an engine that never loaded rejects every command.
WriteDone(i) ==
    /\ i \in 1..Len(converts)
    /\ converts[i].pc = "write"
    /\ IF engineLoaded
       THEN /\ fsFiles' = fsFiles \cup {"input"}
            /\ converts' = [converts EXCEPT ![i].pc = "exec"]
            /\ UNCHANGED <<isConverting, convertedUrl, lastAlert, lastError>>
       ELSE /\ ConvertThrows(i, "ffmpeg is not loaded")
            /\ UNCHANGED fsFiles
    /\ UNCHANGED <<fileVars, ffmpeg, engines, engineLoaded, listeners>>
    /\ UNCHANGED <<playerVars, parserVars, requests>>

\* ff.exec settled: it wrote the output file, or ended without one.
ExecDone(i, ok) ==
    /\ i \in 1..Len(converts)
    /\ converts[i].pc = "exec"
    /\ fsFiles' = IF ok THEN fsFiles \cup {"output"} ELSE fsFiles
    /\ converts' = [converts EXCEPT ![i].pc = "read"]
    /\ UNCHANGED <<fileVars, isConverting, convertedUrl, lastAlert, lastError>>
    /\ UNCHANGED <<ffmpeg, engines, engineLoaded, listeners>>
    /\ UNCHANGED <<playerVars, parserVars, requests>>

\* ff.readFile(outputName) settled.
ReadDone(i) ==
    /\ i \in 1..Len(converts)
    /\ converts[i].pc = "read"
    /\ IF "output" \in fsFiles
       THEN /\ converts' = [converts EXCEPT ![i].pc = "deleteInput"]
            /\ UNCHANGED <<isConverting, convertedUrl, lastAlert, lastError>>
       ELSE ConvertThrows(i, "conversion failed")
    /\ UNCHANGED <<fileVars, engineVars>>
    /\ UNCHANGED <<playerVars, parserVars, requests>>

\* ff.deleteFile(inputName) settled.
DeleteInputDone(i) ==
    /\ i \in 1..Len(converts)
    /\ converts[i].pc = "deleteInput"
    /\ fsFiles' = fsFiles \ {"input"}
    /\ converts' = [converts EXCEPT ![i].pc = "deleteOutput"]
    /\ UNCHANGED <<fileVars, isConverting, convertedUrl, lastAlert, lastError>>
    /\ UNCHANGED <<ffmpeg, engines, engineLoaded, listeners>>
    /\ UNCHANGED <<playerVars, parserVars, requests>>

\* ff.off('progress', () => {}) is given a function that was never
\* registered: it removes no listener.
OffProgress(n) == n

\* ff.deleteFile(outputName) settled; ff.off; the blob is returned and
\* handleConvert stores its URL and, in finally, drops the flag.
DeleteOutputDone(i) ==
    /\ i \in 1..Len(converts)
    /\ converts[i].pc = "deleteOutput"
    /\ fsFiles' = fsFiles \ {"output"}
    /\ listeners' = OffProgress(listeners)
    /\ convertedUrl' = converts[i].audio
    /\ isConverting' = FALSE
    /\ converts' = Remove(converts, i)
    /\ UNCHANGED <<fileVars, lastAlert, lastError>>
    /\ UNCHANGED <<ffmpeg, engines, engineLoaded>>
    /\ UNCHANGED <<playerVars, parserVars, requests>>

(***************************************************************************)
(* The application: every handler and every completion                     *)
(***************************************************************************)
Bool == {TRUE, FALSE}

Next ==
    \/ \E f \in 0..MaxFiles : handleFileUpload(f)
    \/ \E u \in 0..MaxUrls : setInputUrl(u)
    \/ handleUrlSubmit
    \/ \E i \in 1..MaxInFlight : LoadSucceeds(i) \/ LoadFails(i)
    \/ handleTranscribe
    \/ ProgressTickNear
    \/ \E i \in 1..Len(transcribes), ok \in Bool : ReaderDone(i, ok)
    \/ \E i \in 1..Len(transcribes), ok \in Bool :
          \E t \in {<<>>, TextOf(transcribes[i].audio)} : ModelAnswers(i, ok, t)
    \/ FinishTimer
    \/ handleConvert
    \/ \E i \in 1..Len(converts), ok \in Bool : CoreFetched(i, ok)
    \/ \E i \in 1..Len(converts), ok \in Bool : EngineLoadDone(i, ok)
    \/ \E i \in 1..Len(converts) : WriteDone(i)
    \/ \E i \in 1..Len(converts), ok \in Bool : ExecDone(i, ok)
    \/ \E i \in 1..Len(converts) : ReadDone(i)
    \/ \E i \in 1..Len(converts) : DeleteInputDone(i)
    \/ \E i \in 1..Len(converts) : DeleteOutputDone(i)

Spec == Init /\ [][Next]_vars

(***************************************************************************)
(* The progress counter alone: the transcribe handlers with every tick     *)
(***************************************************************************)
NextProgress ==
    \/ \E f \in 1..MaxFiles : handleFileUpload(f)
    \/ handleTranscribe
    \/ ProgressTick
    \/ \E i \in 1..Len(transcribes), ok \in Bool : ReaderDone(i, ok)
    \/ \E i \in 1..Len(transcribes), ok \in Bool :
          \E t \in {<<>>, TextOf(transcribes[i].audio)} : ModelAnswers(i, ok, t)
    \/ FinishTimer

SpecProgress == Init /\ [][NextProgress]_vars

(***************************************************************************)
(* The parser, the search box and the timestamp buttons on bounded texts   *)
(***************************************************************************)
\* Lines a response may hold: blank, plain, timestamped in each accepted
\* form, padded, preceded by other text, malformed, ended by a carriage return.
LineShapes ==
    { <<>>,
      <<" ">>,
      <<" ", "H", "i", " ">>,
      <<"[", "0", "0", ":", "0", "5", "]", " ", "H", "e">>,
      <<"[", "0", "2", ":", "0", "3", "]", "x", " ", " ">>,
      <<"[", "0", "1", ":", "0", "2", ":", "0", "3", "]", " ", " ", "h", "i", "\r">>,
      <<"a", " ", "[", "1", ":", "2", "0", "]", " ", "e">>,
      <<"[", "1", ":", "5", "]", " ", "x">>,
      <<" ", "[", "1", "2", ":", "3", "4", "]">> }

RECURSIVE JoinLines(_)
JoinLines(ls) ==
    IF Len(ls) = 1 THEN ls[1]
    ELSE ls[1] \o <<"\n">> \o JoinLines(Tail(ls))

ParserInputs ==
    UNION { {JoinLines(ls) : ls \in [1..n -> LineShapes]} : n \in 1..MaxLines }

Queries == { <<>>, <<"h", "e">>, <<"H">>, <<"z">> }

\* A transcription whose response has just arrived: the loop is about to run.
InitParsing ==
    /\ audioFile = 1
    /\ audioUrl = 1
    /\ inputUrl = 0
    /\ isTranscribing = TRUE
    /\ transcriptionProgress = 0
    /\ transcription = <<>>
    /\ searchQuery = <<>>
    /\ isConverting = FALSE
    /\ convertedUrl = 0
    /\ loads = <<>>
    /\ transcribes = <<[audio |-> 1, pc |-> "parsing"]>>
    /\ intervals = 1
    /\ timers = 0
    /\ converts = <<>>
    /\ lastAlert = "none"
    /\ lastError = "none"
    /\ InitPlayer /\ InitEngine /\ InitServer
    /\ text \in ParserInputs
    /\ lineIdx = 0
    /\ chunks = <<>>
    /\ ppc = "parsing"

lines == Split(text, "\n")

\* One iteration of the for loop.
ParseStep ==
    /\ ppc = "parsing"
    /\ lineIdx < Len(lines)
    /\ chunks' = ParseLine(chunks, lines[lineIdx + 1])
    /\ lineIdx' = lineIdx + 1
    /\ UNCHANGED <<text, ppc>>
    /\ UNCHANGED <<appVars, transcription, searchQuery, playerVars, engineVars, requests>>

\* The loop is over: the chunks are stored and the handler winds up.
ParseStore ==
    /\ ppc = "parsing"
    /\ lineIdx = Len(lines)
    /\ \E i \in 1..Len(transcribes) :
          /\ transcribes[i].pc = "parsing"
          /\ TranscribeCompletes(i, chunks)
    /\ ppc' = "done"
    /\ UNCHANGED <<text, lineIdx, chunks>>
    /\ UNCHANGED <<playerVars, engineVars, requests>>

\* onChange of the search box; no event is handled while the loop runs.
setSearchQuery(q) ==
    /\ ppc # "parsing"
    /\ searchQuery' = q
    /\ UNCHANGED <<appVars, transcription, playerVars, parserVars, engineVars, requests>>

\* onClick of the k-th timestamp button shown. The list is rendered when no
\* transcription is running and some chunk is stored; a NaN assigned to
\* currentTime throws and leaves the position.
SeekClick(k) ==
    /\ ~isTranscribing
    /\ transcription # <<>>
    /\ audioUrl # 0
    /\ k \in 1..Len(filteredTranscription)
    /\ seekTime' = filteredTranscription[k].time
    /\ currentTime' =
          LET secs == TimeToSeconds(filteredTranscription[k].time)
          IN  IF secs = NaN THEN currentTime ELSE secs
    /\ UNCHANGED <<appVars, transcription, searchQuery, parserVars, engineVars, requests>>

NextParser ==
    \/ ParseStep
    \/ ParseStore
    \/ FinishTimer
    \/ \E q \in Queries : setSearchQuery(q)
    \/ \E k \in 1..MaxLines : SeekClick(k)

SpecParser == InitParsing /\ [][NextParser]_vars

(***************************************************************************)
(* The server: app.get('/api/proxy-audio') and the serverless handler,     *)
(* which are the same code                                                 *)
(***************************************************************************)
\* req.query.url: absent, empty, or a URL.
UrlParams == {"absent", "", "http://a"}

\* What the upstream answers: a status and, possibly, a content-type.
UpstreamAnswers ==
    [status : {200, 404, 503}, ctype : {"none", "audio/mpeg"}]

NoAnswer == [status |-> 0, ctype |-> "none"]

\* UrlIsFalsy testing for the missing parameter only.
UrlIsAbsent(u) == u = "absent"

\* !audioUrl
UrlIsFalsy(u) == u \in {"absent", ""}

\* response.ok
ResponseOk(a) == a.status \in 200..299

\* res.status(code).json(body) and res.send(body): one more response written.
Respond(r, code, body) ==
    [r EXCEPT !.status = code, !.body = body, !.sent = @ + 1, !.pc = "done"]

\* A request arrives and the handler runs up to its first await.
ProxyReceive(u) ==
    /\ Len(requests) < MaxRequests
    /\ LET r == [url |-> u, pc |-> "start", fetched |-> 0, upstream |-> NoAnswer,
                 threw |-> "no", header |-> "none", status |-> 0, body |-> "none",
                 sent |-> 0]
       IN  requests' = Append(requests,
              IF UrlIsFalsy(u)
              THEN Respond(r, 400, "URL is required")
              ELSE [r EXCEPT !.pc = "fetch", !.fetched = 1])
    /\ UNCHANGED <<appVars, transcription, searchQuery, playerVars, parserVars, engineVars>>

\* await fetch(audioUrl) resumed with a response.
ProxyFetched(i, a) ==
    /\ i \in 1..Len(requests)
    /\ requests[i].pc = "fetch"
    /\ LET r == [requests[i] EXCEPT !.upstream = a]
       IN  requests' = [requests EXCEPT ![i] =
              IF ~ResponseOk(a)
              THEN Respond(r, a.status, "Failed to fetch audio")
              ELSE [r EXCEPT !.pc = "read",
                             !.header = IF a.ctype # "none" THEN a.ctype ELSE @]]
    /\ UNCHANGED <<appVars, transcription, searchQuery, playerVars, parserVars, engineVars>>

\* The catch block.
ProxyCatch(r, where) ==
    Respond([r EXCEPT !.threw = where], 500, "Failed to fetch audio")

\* await fetch(audioUrl) threw.
ProxyFetchThrows(i) ==
    /\ i \in 1..Len(requests)
    /\ requests[i].pc = "fetch"
    /\ requests' = [requests EXCEPT ![i] = ProxyCatch(@, "fetch")]
    /\ UNCHANGED <<appVars, transcription, searchQuery, playerVars, parserVars, engineVars>>

\* await response.arrayBuffer() resumed: the bytes are sent with status 200.
ProxyBodyRead(i) ==
    /\ i \in 1..Len(requests)
    /\ requests[i].pc = "read"
    /\ requests' = [requests EXCEPT ![i] = Respond(@, 200, "bytes")]
    /\ UNCHANGED <<appVars, transcription, searchQuery, playerVars, parserVars, engineVars>>

\* await response.arrayBuffer() threw.
ProxyBodyThrows(i) ==
    /\ i \in 1..Len(requests)
    /\ requests[i].pc = "read"
    /\ requests' = [requests EXCEPT ![i] = ProxyCatch(@, "read")]
    /\ UNCHANGED <<appVars, transcription, searchQuery, playerVars, parserVars, engineVars>>

\* The connection of an answered request closes.
ProxyClose(i) ==
    /\ i \in 1..Len(requests)
    /\ requests[i].pc = "done"
    /\ requests' = Remove(requests, i)
    /\ UNCHANGED <<appVars, transcription, searchQuery, playerVars, parserVars, engineVars>>

NextProxy ==
    \/ \E u \in UrlParams : ProxyReceive(u)
    \/ \E i \in 1..Len(requests), a \in UpstreamAnswers : ProxyFetched(i, a)
    \/ \E i \in 1..Len(requests) : ProxyFetchThrows(i)
    \/ \E i \in 1..Len(requests) : ProxyBodyRead(i)
    \/ \E i \in 1..Len(requests) : ProxyBodyThrows(i)
    \/ \E i \in 1..Len(requests) : ProxyClose(i)

SpecProxy == Init /\ [][NextProxy]_vars

(***************************************************************************)
(* Properties of the parser  (SpecParser)                                  *)
(***************************************************************************)
MaxOf(S) == CHOOSE m \in S : \A n \in S : m >= n

\* s without its leading and trailing white space, by positions.
Stripped(s) ==
    LET nb == {i \in 1..Len(s) : s[i] \notin WhiteSpace}
    IN  IF nb = {} THEN <<>> ELSE SubSeq(s, Min(nb), MaxOf(nb))

\* The line the loop is about to consume, and the step that consumes it.
CurrentLine == lines[lineIdx + 1]

LoopStep == ppc = "parsing" /\ lineIdx < Len(lines) /\ lineIdx' = lineIdx + 1

\* A bracketed timestamp, in any of its four forms, starts at s[i].
TimestampAt(s, i) == MatchAt(s, i) > 0

HasTimestamp(s) == \E i \in 1..Len(s) : TimestampAt(s, i)

EndsWith(s, t) ==
    Len(t) <= Len(s) /\ SubSeq(s, Len(s) - Len(t) + 1, Len(s)) = t

\* C1: a line holding a timestamp appends exactly one chunk: its time is the
\* first timestamp without the brackets, its text what follows the "]" with
\* leading and trailing white space removed; the earlier chunks stay.
C1_TimestampedLineAppendsTrimmedChunk ==
    [][ (LoopStep /\ HasTimestamp(CurrentLine)) =>
          LET line == CurrentLine
              i == Min({j \in 1..Len(line) : TimestampAt(line, j)})
              n == MatchAt(line, i)
          IN  chunks' = Append(chunks,
                 [time |-> SubSeq(line, i + 1, i + n),
                  text |-> Stripped(SubSeq(line, i + n + 2, Len(line)))]) ]_vars

\* C2: a non-blank line without a timestamp adds " " and the trimmed line to
\* the last chunk's text, leaving the earlier chunks and that chunk's time, or
\* opens the one chunk "00:00" when there is none; a blank line changes
\* nothing; a text of blank lines only is stored as the empty transcription.
C2_ContinuationMergesIntoLastChunk ==
    /\ [][ (LoopStep /\ ~HasTimestamp(CurrentLine)) =>
             LET t == Stripped(CurrentLine)
                 n == Len(chunks)
             IN  IF t = <<>> THEN chunks' = chunks
                 ELSE IF n > 0
                 THEN /\ Len(chunks') = n
                      /\ \A k \in 1..(n - 1) : chunks'[k] = chunks[k]
                      /\ chunks'[n].time = chunks[n].time
                      /\ chunks'[n].text = chunks[n].text \o <<" ">> \o t
                 ELSE chunks' = <<[time |-> <<"0", "0", ":", "0", "0">>, text |-> t]>> ]_vars
    /\ []( (ppc = "done" /\ \A k \in 1..Len(lines) : Stripped(lines[k]) = <<>>)
             => transcription = <<>> )

\* C2 witness: after two timestamped lines a third, plain line was merged.
C2_Witness ==
    /\ ppc = "parsing"
    /\ lineIdx = 3
    /\ Len(chunks) = 2
    /\ ~HasTimestamp(lines[3])
    /\ Stripped(lines[3]) # <<>>
    /\ EndsWith(chunks[2].text, <<" ">> \o Stripped(lines[3]))

\* C3: a non-blank line that does not begin (after white space) with a
\* timestamp is a continuation: it opens no chunk beyond the first "00:00"
\* one and its trimmed text ends the last chunk, so nothing of it is lost.
C3_TextBeforeTimestampIsContinuation ==
    [][ (LoopStep /\ Stripped(CurrentLine) # <<>>
                  /\ ~TimestampAt(Stripped(CurrentLine), 1)) =>
          /\ Len(chunks') = Max(Len(chunks), 1)
          /\ EndsWith(chunks'[Len(chunks')].text, Stripped(CurrentLine)) ]_vars

(***************************************************************************)
(* Properties of the seek mapping and the search filter  (SpecParser)      *)
(***************************************************************************)
Colons(t) == {i \in 1..Len(t) : t[i] = ":"}

TwoDigits(t, i) == 10 * DigitValue(t[i]) + DigitValue(t[i + 1])

\* The seconds of "M:SS", "MM:SS", "H:MM:SS" or "HH:MM:SS", read by position
\* from the right.
SecondsByPosition(t) ==
    LET n == Len(t)
    IN  IF Cardinality(Colons(t)) = 2
        THEN DecimalValue(SubSeq(t, 1, n - 6)) * 3600
               + TwoDigits(t, n - 4) * 60 + TwoDigits(t, n - 1)
        ELSE DecimalValue(SubSeq(t, 1, n - 3)) * 60 + TwoDigits(t, n - 1)

\* Digits and one or two colons, no part empty.
WellFormedTime(t) ==
    /\ \A i \in 1..Len(t) : t[i] \in Digits \cup {":"}
    /\ Cardinality(Colons(t)) \in {1, 2}
    /\ t[1] # ":" /\ t[Len(t)] # ":"
    /\ \A i \in 1..(Len(t) - 1) : ~(t[i] = ":" /\ t[i + 1] = ":")

\* C4: every time the parser emits, while looping or stored, has two or three
\* numeric parts, and a click on it sets the position to h*3600 + m*60 + s or
\* m*60 + s: "01:02:03" gives 3723 and "02:03" gives 123, never the fallback 0
\* of another shape.
C4_SeekMapsParsedTimes ==
    /\ \A k \in 1..Len(chunks) : WellFormedTime(chunks[k].time)
    /\ \A k \in 1..Len(transcription) : WellFormedTime(transcription[k].time)
    /\ seekTime # <<>> =>
          /\ WellFormedTime(seekTime)
          /\ currentTime = SecondsByPosition(seekTime)
    /\ seekTime = <<"0", "1", ":", "0", "2", ":", "0", "3">> => currentTime = 3723
    /\ seekTime = <<"0", "2", ":", "0", "3">> => currentTime = 123

\* C4 witness: the button "01:02:03" was clicked and the position is 3723.
C4_Witness ==
    /\ seekTime = <<"0", "1", ":", "0", "2", ":", "0", "3">>
    /\ currentTime = 3723

CasePairs == {{"a", "A"}, {"e", "E"}, {"h", "H"}, {"i", "I"}, {"x", "X"}}

SameLetter(a, b) == a = b \/ {a, b} \in CasePairs

\* q occurs in s at some offset, letter for letter up to case.
ContainsIgnoringCase(s, q) ==
    \E k \in 0..(Len(s) - Len(q)) :
        \A j \in 1..Len(q) : SameLetter(s[k + j], q[j])

\* C5: what is shown is exactly the stored chunks whose text contains the
\* query up to case, in their order; all of them for the empty query; and
\* typing a query leaves the stored transcription as it is.
C5_FilterIsCaseInsensitiveSubsequence ==
    /\ []( /\ filteredTranscription =
                SelectSeq(transcription,
                          LAMBDA c : ContainsIgnoringCase(c.text, searchQuery))
           /\ searchQuery = <<>> => filteredTranscription = transcription )
    /\ [][ searchQuery' # searchQuery => transcription' = transcription ]_vars

\* C5 witness: the query "he" shows one of two stored chunks, the one whose
\* text holds "He".
C5_Witness ==
    /\ searchQuery = <<"h", "e">>
    /\ Len(transcription) = 2
    /\ Len(filteredTranscription) = 1
    /\ Includes(filteredTranscription[1].text, <<"H", "e">>)

(***************************************************************************)
(* Properties of the application's requests  (Spec)                        *)
(***************************************************************************)
\* C6: of each action (load, transcribe, convert) at most one request is in
\* flight at any time.
C6_EachActionNonReentrant ==
    /\ Len(loads) <= 1
    /\ Len(transcribes) <= 1
    /\ Len(converts) <= 1

Calling == {i \in 1..Len(transcribes) : transcribes[i].pc = "calling"}

\* C7: at most one of the proxy fetch, the model call and the conversion is
\* in flight at any time.
C7_OneKindOfCallInFlight ==
    Cardinality({k \in {"load", "transcribe", "convert"} :
                   \/ k = "load" /\ loads # <<>>
                   \/ k = "transcribe" /\ Calling # {}
                   \/ k = "convert" /\ converts # <<>>}) <= 1

\* C9: once a request has ended its flag is down again, and a conversion
\* fails only through a failure of one of its own upstream calls (the core
\* fetch, the load, the exec), so a retry whose calls succeed succeeds; the
\* error "ffmpeg is not loaded" is one no upstream call of the attempt raised.
C9_FailedActionCanBeRetried ==
    /\ converts = <<>> => ~isConverting
    /\ (transcribes = <<>> /\ timers = 0) => ~isTranscribing
    /\ lastError # "ffmpeg is not loaded"

(***************************************************************************)
(* Properties of the simulated progress  (SpecProgress)                    *)
(***************************************************************************)
InFlight == transcribes # <<>>

\* C8: while a request is in flight the counter is below 100, starts at 0,
\* moves only upwards and only by a tick's step (between 0.5 and 4.5); it
\* becomes 100 only in the step that stores a parsed response; and with no
\* request in flight no interval is live and no step changes the counter.
C8_ProgressBelow100UntilResponse ==
    /\ []( /\ InFlight => /\ transcriptionProgress >= 0
                          /\ transcriptionProgress < Pct(100)
           /\ ~InFlight => intervals = 0 )
    /\ [][ /\ Len(transcribes') > Len(transcribes) => transcriptionProgress' = 0
           /\ (InFlight /\ Len(transcribes') = Len(transcribes)) =>
                 \/ transcriptionProgress' = transcriptionProgress
                 \/ /\ transcribes' = transcribes
                    /\ intervals > 0
                    /\ transcriptionProgress' - transcriptionProgress
                          \in (Pct(1) \div 2)..(Pct(90) \div 20)
           /\ (transcriptionProgress' = Pct(100) /\ transcriptionProgress # Pct(100)) =>
                 /\ Len(transcribes') = Len(transcribes) - 1
                 /\ \E i \in Calling :
                       transcription' \in {ParseChunks(t) :
                                             t \in {<<>>, TextOf(transcribes[i].audio)}}
                 /\ lastAlert' = lastAlert
           /\ (~InFlight /\ transcribes' = <<>>) =>
                 transcriptionProgress' = transcriptionProgress ]_vars

\* C8 witness: a request is in flight and the counter has reached its cap.
C8_Witness ==
    /\ InFlight
    /\ transcriptionProgress >= Pct(90)

(***************************************************************************)
(* Properties of the proxy  (SpecProxy)                                    *)
(***************************************************************************)
\* C10: a request is answered at most once and an ended handler exactly
\* once: 400 "URL is required" without any upstream fetch for a missing or
\* empty url; 500 with an error when the fetch or the body read threw; the
\* upstream status with an error when the upstream answer was not ok;
\* otherwise the bytes, with the upstream content-type as header.
C10_ProxyAnswersExactlyOnce ==
    \A i \in 1..Len(requests) :
        LET r == requests[i]
        IN  /\ r.sent <= 1
            /\ r.pc # "done" => r.sent = 0
            /\ r.pc = "done" =>
                 /\ r.sent = 1
                 /\ CASE r.url \in {"absent", ""} ->
                            /\ r.status = 400
                            /\ r.body = "URL is required"
                            /\ r.fetched = 0
                      [] r.url \notin {"absent", ""} /\ r.threw # "no" ->
                            /\ r.status = 500
                            /\ r.body = "Failed to fetch audio"
                      [] r.url \notin {"absent", ""} /\ r.threw = "no"
                            /\ r.upstream.status \notin 200..299 ->
                            /\ r.status = r.upstream.status
                            /\ r.body = "Failed to fetch audio"
                      [] OTHER ->
                            /\ r.body = "bytes"
                            /\ r.header = r.upstream.ctype

\* C10 witness: of two requests ended, one without url got 400 and one got
\* the bytes with the upstream content-type.
C10_Witness ==
    /\ Len(requests) = 2
    /\ requests[1].pc = "done" /\ requests[1].url = "" /\ requests[1].status = 400
    /\ requests[2].pc = "done" /\ requests[2].body = "bytes"
    /\ requests[2].header = "audio/mpeg"

(***************************************************************************)
(* Properties of the conversion engine  (Spec)                             *)
(***************************************************************************)
\* The convertAudio calls whose "await getFFmpeg()" has returned an engine.
HoldsEngine ==
    {i \in 1..Len(converts) :
        converts[i].pc \in {"write", "exec", "read", "deleteInput", "deleteOutput"}}

\* C11: at most one engine instance is ever created, the module variable is
\* empty or names it, and every call of getFFmpeg that has returned an engine
\* returned one whose load completed successfully.
C11_EngineLoadedOnceAndReused ==
    /\ engines <= 1
    /\ ffmpeg \in {0, engines}
    /\ HoldsEngine # {} => engineLoaded

(***************************************************************************)
(* Properties of the stored transcription  (Spec)                          *)
(***************************************************************************)
\* The transcription the model's answer for audio a parses to.
TranscriptionOf(a) == ParseChunks(TextOf(a))

\* C12: a stored non-empty transcription is the one produced from the audio
\* that is loaded now, and a step that replaces the loaded audio leaves the
\* transcription empty.
C12_TranscriptionBelongsToLoadedAudio ==
    /\ [](transcription # <<>> =>
             /\ audioFile # 0
             /\ transcription = TranscriptionOf(audioFile))
    /\ [][audioFile' # audioFile => transcription' = <<>>]_vars

(***************************************************************************)
(* Properties of a conversion's clean-up  (Spec)                           *)
(***************************************************************************)
\* C13: once no convertAudio call is running, the engine holds no progress
\* listener and no temporary file; and while one runs, the only listeners
\* subscribed are those of running calls, so a progress event reaches no
\* callback of an earlier conversion.
C13_ConversionLeavesNoListenerNoFile ==
    /\ converts = <<>> => /\ listeners = 0
                          /\ fsFiles = {}
    /\ listeners <= Cardinality(HoldsEngine)

=============================================================================
